---- MODULE Spec2Model ----
(***************************************************************************)
(* The assert-divide loop of the Dafny VS Code extension.                  *)
(*                                                                         *)
(* The loop modelled is the class SketchAssertDivide: the user command     *)
(* (handle), the asynchronous step tryAssertStep with its await points,    *)
(* and the diagnostics listener handleDiagnosticsChange.  The oracle (the  *)
(* sketch request) and the verifier (the diagnostics) are inputs.          *)
(* Text is modelled character by character: a string is a sequence of      *)
(* one-character strings, a buffer is a sequence of lines.  Line numbers   *)
(* are 0-based as in the editor API; line l of a text is its element       *)
(* l + 1.  Documents are named by their key (docKey, the file path).       *)
(***************************************************************************)
EXTENDS Integers, Sequences, FiniteSets, TLC

VARIABLES
    buffer,              \* per document key: the document text, a sequence of lines
    isDirty,             \* per document key: the text has edits that are not saved
    assertDivideStates,  \* the static Map: per document key a state object or none
    activeTextEditor,    \* window.activeTextEditor: the key of the document it shows
    heap,                \* the AssertDivideState objects ever created, by identity
    tasks,               \* the activations of tryAssertStep before their build command
    building,            \* per state object: activations awaiting the build command
    ghost,               \* per state object: what has been done on its behalf
    last,                \* the command or notification the step just taken handled
    feedbackDue,         \* a build was requested and no fresh diagnostics came since
    fetcher              \* the counterexample fetcher: its timer, its calls, the clock

vars ==
    <<buffer, isDirty, assertDivideStates, activeTextEditor, heap, tasks, building, ghost,
      last, feedbackDue, fetcher>>

(***************************************************************************)
(* Bounds of the model.                                                    *)
(***************************************************************************)
\* how many diagnostics one notification reports for the document
MaxErrs == 2

(***************************************************************************)
(* Strings.                                                                *)
(***************************************************************************)
Whitespace == {" ", "\t", "\n", "\r"}

KwAssert == <<"a", "s", "s", "e", "r", "t">>

Max(a, b) == IF a > b THEN a ELSE b

Min(a, b) == IF a < b THEN a ELSE b

\* s.substring(from - 1, to) in 1-based, inclusive positions
Sub(s, from, to) == IF from > to THEN <<>> ELSE SubSeq(s, from, to)

\* s.startsWith(p)
StartsWith(s, p) == Len(s) >= Len(p) /\ Sub(s, 1, Len(p)) = p

\* s.includes(c) for a one-character c
Includes(s, c) == \E i \in 1..Len(s) : s[i] = c

\* number of whitespace characters s holds from position i on
RECURSIVE WsRun(_, _)
WsRun(s, i) == IF i <= Len(s) /\ s[i] \in Whitespace THEN 1 + WsRun(s, i + 1) ELSE 0

\* number of whitespace characters s ends with, looking back from position i
RECURSIVE WsRunBack(_, _)
WsRunBack(s, i) == IF i >= 1 /\ s[i] \in Whitespace THEN 1 + WsRunBack(s, i - 1) ELSE 0

\* s.trim()
Trim(s) ==
    LET a == WsRun(s, 1)
    IN  IF a = Len(s) THEN <<>>
        ELSE Sub(s, a + 1, Len(s) - WsRunBack(s, Len(s)))

\* s.replace(/^assert\s+/, '')
StripAssert(s) ==
    IF StartsWith(s, KwAssert) /\ WsRun(s, Len(KwAssert) + 1) >= 1
    THEN Sub(s, Len(KwAssert) + WsRun(s, Len(KwAssert) + 1) + 1, Len(s))
    ELSE s

\* s.replace(/;$/, '')
StripSemicolon(s) ==
    IF Len(s) >= 1 /\ s[Len(s)] = ";" THEN Sub(s, 1, Len(s) - 1) ELSE s

\* the lines of a text: text.split('\n')
RECURSIVE SplitLines(_)
SplitLines(s) ==
    IF ~Includes(s, "\n") THEN <<s>>
    ELSE LET i == CHOOSE k \in 1..Len(s) :
                      s[k] = "\n" /\ \A j \in 1..(k - 1) : s[j] # "\n"
         IN  <<Sub(s, 1, i - 1)>> \o SplitLines(Sub(s, i + 1, Len(s)))

(***************************************************************************)
(* The document: lines, the inserted line, the commented-out line.         *)
(***************************************************************************)
Indent == <<" ", " ", " ", " ">>

IntermediateSuffix ==
    <<";", " ", "/", "/", " ", "I", "n", "t", "e", "r", "m", "e", "d", "i", "a", "t", "e",
      " ", "s", "t", "e", "p">>

CommentPrefix == <<"/", "/", " ">>

\* `    assert ${assertion.assertion}; // Intermediate step\n`
InsertedText(assertion) ==
    Indent \o KwAssert \o <<" ">> \o assertion \o IntermediateSuffix \o <<"\n">>

\* the document after inserting text at Position(line, 0)
InsertAt(buf, line, text) ==
    LET pieces == SplitLines(text)
        whole  == Sub(pieces, 1, Len(pieces) - 1)
        rest   == pieces[Len(pieces)]
    IN  IF line >= Len(buf) THEN buf \o whole \o (IF rest = <<>> THEN <<>> ELSE <<rest>>)
        ELSE Sub(buf, 1, line) \o whole \o <<rest \o buf[line + 1]>>
             \o Sub(buf, line + 2, Len(buf))

\* the document after deleting the line `line`
deleteLine(buf, line) == Sub(buf, 1, line) \o Sub(buf, line + 2, Len(buf))

\* the document after replacing the whole of line `line` by `// ${lineText}`
commentOutLine(buf, line) ==
    [buf EXCEPT ![line + 1] = CommentPrefix \o buf[line + 1]]

(***************************************************************************)
(* Obligations and the absent value: an optional obligation is a sequence  *)
(* of no or one obligation.                                                *)
(***************************************************************************)
Obligation(line, assertion) == [line |-> line, assertion |-> assertion]

Absent == <<>>

\* first position from i on where text holds /assert\s+(.*?);/, or 0
RECURSIVE MatchAssert(_, _)
MatchAssert(text, i) ==
    IF i + Len(KwAssert) > Len(text) THEN 0
    ELSE LET ws    == WsRun(text, i + Len(KwAssert))
             start == i + Len(KwAssert) + ws
         IN  IF /\ Sub(text, i, i + Len(KwAssert) - 1) = KwAssert
                /\ ws >= 1
                /\ \E j \in start..Len(text) :
                       text[j] = ";" /\ \A k \in start..(j - 1) : text[k] \notin {"\n", "\r"}
             THEN i
             ELSE MatchAssert(text, i + 1)

\* the group (.*?) of the match at position i
MatchGroup(text, i) ==
    LET start == i + Len(KwAssert) + WsRun(text, i + Len(KwAssert))
        j     == CHOOSE k \in start..Len(text) :
                     text[k] = ";" /\ \A m \in start..(k - 1) : text[m] # ";"
    IN  Sub(text, start, j - 1)

\* every line taken for an assert statement
extractAnyLine(buf, cursor) == <<Obligation(cursor, Trim(buf[cursor + 1]))>>

extractAssertInfo(buf, cursor) ==
    LET text == buf[cursor + 1]
    IN  IF ~StartsWith(Trim(text), KwAssert) THEN Absent
        ELSE IF MatchAssert(text, 1) = 0 THEN Absent
        ELSE <<Obligation(cursor, Trim(MatchGroup(text, MatchAssert(text, 1))))>>

ContextRadius == 5

RECURSIVE ContextFrom(_, _, _, _)
ContextFrom(buf, line, i, endLine) ==
    IF i >= endLine THEN <<>>
    ELSE (IF i = line
          THEN <<">", ">", ">", " ">> \o buf[i + 1] \o <<" ", "<", "<", "<", "\n">>
          ELSE buf[i + 1] \o <<"\n">>)
         \o ContextFrom(buf, line, i + 1, endLine)

\* the lines up to and with the fifth after the line
getContextThrough(buf, line) ==
    ContextFrom(buf, line, Max(0, line - ContextRadius),
                Min(Len(buf), line + ContextRadius + 1))

getAssertionContext(buf, line) ==
    ContextFrom(buf, line, Max(0, line - ContextRadius), Min(Len(buf), line + ContextRadius))

(***************************************************************************)
(* The oracle's answer and what generateIntermediateAssertion makes of it. *)
(***************************************************************************)
Response(throws, sketch) == [throws |-> throws, sketch |-> sketch]

Sketches ==
    { <<>>,
      <<"p">>,
      <<"a", "s", "s", "e", "r", "t", " ", "p", ";">>,
      <<"p", "\n", "q">>,
      <<"p", ";", "q">> }

OracleResponses == {Response(TRUE, <<>>)} \cup {Response(FALSE, s) : s \in Sketches}

\* the sketch trimmed, without a leading 'assert' and a final semicolon
CleanSketch(sketch) == StripSemicolon(StripAssert(Trim(sketch)))

\* the sketch is refused: 'AI returned multiple lines/assertions, skipping'
MultipleLines(assertion) == Includes(assertion, "\n")

\* an obligation returned whatever the oracle did
generateAlways(state, resp) ==
    <<Obligation(state.targetAssertion.line, CleanSketch(resp.sketch))>>

\* the obligation generateIntermediateAssertion returns, or Absent (null)
generateIntermediateAssertion(state, resp) ==
    IF resp.throws THEN Absent
    ELSE IF resp.sketch = <<>> THEN Absent
    ELSE IF MultipleLines(CleanSketch(resp.sketch)) THEN Absent
    ELSE <<Obligation(state.targetAssertion.line, CleanSketch(resp.sketch))>>

(***************************************************************************)
(* The session state objects.                                              *)
(***************************************************************************)
\* a state object that starts with one step counted and its target in the history
NewStateUsed(assertInfo) ==
    [ targetAssertion    |-> assertInfo,
      depth              |-> 1,
      attempt            |-> <<>>,
      verifiedAssertions |-> <<assertInfo>> ]

\* the AssertDivideState that handle registers
NewState(assertInfo) ==
    [ targetAssertion    |-> assertInfo,
      depth              |-> 0,
      attempt            |-> Absent,
      verifiedAssertions |-> <<>> ]

\* the key of the document has no entry in the Map
NoState == 0

\* this.assertDivideStates.get(key)
getAssertDivideStates(map, key) == map[key]

\* one entry shared by all keys: this.assertDivideStates.delete("global")
deleteGlobal(map, key) == [k \in DOMAIN map |-> NoState]

\* this.assertDivideStates.delete(key)
deleteAssertDivideStates(map, key) == [map EXCEPT ![key] = NoState]

\* this.assertDivideStates.set(key, state)
setAssertDivideStates(map, key, state) == [map EXCEPT ![key] = state]

\* what has been done on behalf of the state object registered for the key doc,
\* the line the command was run on and the lines the document had then
NewGhost(doc, origin, lines) ==
    [ doc |-> doc, origin |-> origin, lines |-> lines,
      advances |-> 0, sketches |-> 0, inserts |-> 0, builds |-> 0,
      disables |-> 0, messages |-> 0, outcome |-> "Live" ]

RECURSIVE SumAdvances(_, _)
SumAdvances(g, n) == IF n = 0 THEN 0 ELSE g[n].advances + SumAdvances(g, n - 1)

\* calls of tryAssertStep made so far, over all sessions
TotalAdvances == SumAdvances(ghost, Len(ghost))

RECURSIVE SumBuilds(_, _)
SumBuilds(g, n) == IF n = 0 THEN 0 ELSE g[n].builds + SumBuilds(g, n - 1)

\* number of sessions started and attempts issued so far: diagnostics computed
\* before the last of them are stale
generation == Len(heap) + SumBuilds(ghost, Len(ghost))

\* the step just taken handled no command and no notification
Quiet ==
    [kind |-> "none", stale |-> FALSE, outcome |-> "none", sid |-> NoState,
     targetOK |-> FALSE, attemptOK |-> FALSE]

\* the step just taken ran the command, for the state object sid if it made one
Commanded(outcome, sid) == [Quiet EXCEPT !.kind = "handle", !.outcome = outcome, !.sid = sid]

\* deleteAssertDivideStates(key), with the outcome noted for the session removed
Destroyed(g, reg, outcome, messages) ==
    IF reg = NoState THEN g
    ELSE [g EXCEPT ![reg].outcome = outcome, ![reg].messages = @ + messages]

(***************************************************************************)
(* tryAssertStep up to its first await.                                    *)
(***************************************************************************)
MAX_DEPTH == 5

\* the depth test ending the session after two steps
DepthExceededEarly(depth) == depth > 1

\* the depth test letting one more step through
DepthExceededLate(depth) == depth > MAX_DEPTH + 1

\* if(state.depth > 5)
DepthExceeded(depth) == depth > MAX_DEPTH

\* the depth never counted
NextDepthStuck(depth) == depth

\* the depth counted twice per call
NextDepthByTwo(depth) == depth + 2

\* state.depth++
NextDepth(depth) == depth + 1

\* an activation of tryAssertStep: the documentUri it was called with, the
\* state object it found, where it waits, and its local values
Task(id, doc, sid, pc, line, intermediate) ==
    [id |-> id, doc |-> doc, sid |-> sid, pc |-> pc, line |-> line,
     intermediate |-> intermediate]

\* The values of the Map, the heap, the tasks and the ghost after a call of
\* tryAssertStep(client, editor, documentUri) made with the Map map, the heap h,
\* the tasks tk and the ghost g: the call runs to the await of
\* generateIntermediateAssertion.
tryAssertStep(documentUri, map, h, tk, g) ==
    LET state == getAssertDivideStates(map, documentUri)
    IN  IF state = NoState
        THEN [map |-> map, heap |-> h, tasks |-> tk, ghost |-> g, outcome |-> "NoState"]
        ELSE LET g1 == [g EXCEPT ![state].advances = @ + 1]
             IN  IF DepthExceeded(h[state].depth)
                 THEN [ map     |-> deleteAssertDivideStates(map, documentUri),
                        heap    |-> h,
                        tasks   |-> tk,
                        ghost   |-> Destroyed(g1, state, "Exhausted", 1),
                        outcome |-> "Exhausted" ]
                 ELSE [ map     |-> map,
                        heap    |-> [h EXCEPT ![state].depth = NextDepth(@)],
                        tasks   |-> tk \cup {Task(SumAdvances(g1, Len(g1)), documentUri,
                                                  state, "focusSketch", 0, Absent)},
                        ghost   |-> g1,
                        outcome |-> "Generating" ]

(***************************************************************************)
(* The user command.                                                       *)
(***************************************************************************)
\* The command, run with the cursor on line cursor of the document the active
\* editor shows.
handle(cursor) ==
    /\ UNCHANGED fetcher
    /\ LET uri        == activeTextEditor
           assertInfo == extractAssertInfo(buffer[uri], cursor)
       IN  IF assertInfo = Absent
           THEN /\ last' = Commanded("NotAnObligation", NoState)
                /\ UNCHANGED <<buffer, assertDivideStates, heap, tasks, building, ghost,
                               feedbackDue>>
           ELSE LET sid == Len(heap) + 1
                    g0  == Append(Destroyed(ghost, getAssertDivideStates(assertDivideStates, uri),
                                            "Replaced", 0),
                                  NewGhost(uri, cursor, Len(buffer[uri])))
                    r   == tryAssertStep(uri,
                                         setAssertDivideStates(assertDivideStates, uri, sid),
                                         Append(heap, NewState(assertInfo[1])), tasks, g0)
                IN  /\ assertDivideStates' = r.map
                    /\ heap' = r.heap
                    /\ tasks' = r.tasks
                    /\ ghost' = r.ghost
                    /\ building' = Append(building, 0)
                    /\ feedbackDue' = FALSE
                    /\ last' = Commanded(r.outcome, sid)
                    /\ UNCHANGED buffer
    /\ UNCHANGED <<activeTextEditor, isDirty>>

(***************************************************************************)
(* tryAssertStep after its first await, one action per await point.        *)
(***************************************************************************)
Step(t, pc) == (tasks \ {t}) \cup {[t EXCEPT !.pc = pc]}

\* the document the active editor shows once focusDocument(editor) has resolved
focusDocument(doc) == doc

\* focusDocument in generateIntermediateAssertion resolves; the sketch is requested
SketchRequested(t) ==
    /\ UNCHANGED fetcher
    /\ t.pc = "focusSketch"
    /\ activeTextEditor' = focusDocument(t.doc)
    /\ tasks' = Step(t, "sketch")
    /\ ghost' = [ghost EXCEPT ![t.sid].sketches = @ + 1]
    /\ last' = Quiet
    /\ UNCHANGED <<buffer, isDirty, assertDivideStates, heap, building, feedbackDue>>

\* client.generateSketch resolves or rejects; without an intermediate assertion
\* the entry of the document key is deleted, with one insertAssertion is called
SketchReturned(t, resp) ==
    /\ UNCHANGED fetcher
    /\ t.pc = "sketch"
    /\ LET intermediate == generateIntermediateAssertion(heap[t.sid], resp)
       IN  IF intermediate = Absent
           THEN /\ assertDivideStates' = deleteAssertDivideStates(assertDivideStates, t.doc)
                /\ ghost' = Destroyed(ghost, getAssertDivideStates(assertDivideStates, t.doc),
                                      "Abandoned", 0)
                /\ tasks' = tasks \ {t}
           ELSE /\ tasks' = (tasks \ {t}) \cup
                              {[t EXCEPT !.pc = "focusInsert",
                                         !.line = heap[t.sid].targetAssertion.line,
                                         !.intermediate = intermediate]}
                /\ UNCHANGED <<assertDivideStates, ghost>>
    /\ last' = Quiet
    /\ UNCHANGED <<buffer, isDirty, activeTextEditor, heap, building, feedbackDue>>

\* the text inserted at the start of the line after
insertBelow(buf, assertion, line) ==
    InsertAt(buf, line + 1, InsertedText(assertion.assertion))

\* the text insertAssertion inserts at Position(line, 0)
insertAssertion(buf, assertion, line) == InsertAt(buf, line, InsertedText(assertion.assertion))

\* focusDocument in insertAssertion resolves; lineAt(line) throws on a line the
\* document does not have, otherwise workspace.applyEdit applies the edit
EditApplied(t) ==
    /\ UNCHANGED fetcher
    /\ t.pc = "focusInsert"
    /\ activeTextEditor' = focusDocument(t.doc)
    /\ IF t.line >= Len(buffer[t.doc])
       THEN /\ tasks' = tasks \ {t}
            /\ UNCHANGED <<buffer, isDirty, ghost>>
       ELSE /\ buffer' = [buffer EXCEPT
                              ![t.doc] = insertAssertion(@, t.intermediate[1], t.line)]
            /\ isDirty' = [isDirty EXCEPT ![t.doc] = TRUE]
            /\ ghost' = [ghost EXCEPT ![t.sid].inserts = @ + 1]
            /\ tasks' = Step(t, "saving")
    /\ last' = Quiet
    /\ UNCHANGED <<assertDivideStates, heap, building, feedbackDue>>

\* the attempt given the line of the target itself
AttemptLineOfTarget(targetLine) == targetLine

\* intermediate.line = state.targetAssertion.line - 1, after the increment
AttemptLine(targetLine) == targetLine - 1

\* the state after 'Update line numbers since we inserted above'
RecordAttempt(state, intermediate) ==
    LET shifted == [state EXCEPT !.targetAssertion.line = @ + 1]
    IN  [shifted EXCEPT !.attempt =
            <<[intermediate EXCEPT !.line = AttemptLine(shifted.targetAssertion.line)]>>]

\* applyEdit without `await editor.document.save()`
saveNothing(dirty, doc) == dirty

\* the dirty flags once document.save() has resolved for the document doc
save(dirty, doc) == [dirty EXCEPT ![doc] = FALSE]

\* editor.document.save() in applyEdit resolves
DocumentSaved(t) ==
    /\ UNCHANGED fetcher
    /\ t.pc = "saving"
    /\ isDirty' = save(isDirty, t.doc)
    /\ tasks' = Step(t, "showing")
    /\ last' = Quiet
    /\ UNCHANGED <<buffer, assertDivideStates, activeTextEditor, heap, building, ghost,
                   feedbackDue>>

\* applyEdit resolves (the document is shown); the attempt is recorded and the
\* build command is executed
BuildRequested(t) ==
    /\ UNCHANGED fetcher
    /\ t.pc = "showing"
    /\ activeTextEditor' = t.doc
    /\ heap' = [heap EXCEPT ![t.sid] = RecordAttempt(@, t.intermediate[1])]
    /\ ghost' = [ghost EXCEPT ![t.sid].builds = @ + 1]
    /\ tasks' = tasks \ {t}
    /\ building' = [building EXCEPT ![t.sid] = @ + 1]
    /\ feedbackDue' = TRUE
    /\ last' = Quiet
    /\ UNCHANGED <<buffer, isDirty, assertDivideStates>>

\* the build command of an activation for the state object sid resolves and
\* tryAssertStep returns
BuildReturned(sid) ==
    /\ UNCHANGED fetcher
    /\ building[sid] > 0
    /\ building' = [building EXCEPT ![sid] = @ - 1]
    /\ last' = Quiet
    /\ UNCHANGED <<buffer, isDirty, assertDivideStates, activeTextEditor, heap, tasks,
                   ghost, feedbackDue>>

(***************************************************************************)
(* The diagnostics listener.                                               *)
(***************************************************************************)
Diagnostic(line, unproved) == [line |-> line, unproved |-> unproved]

\* the line on which the statement the command was run on stands now, every
\* line added to the document since having been added above it
FirstTargetLine(sid) ==
    ghost[sid].origin + (Len(buffer[ghost[sid].doc]) - ghost[sid].lines)

\* The lines a notification is given diagnostics on in the active document:
\* the lines the listener looks up, the line of the statement the command was
\* run on, and the first line for every other line (a diagnostic on a line the
\* listener does not look up changes nothing it does).
DiagnosticLines ==
    {0} \cup (IF assertDivideStates[activeTextEditor] = NoState THEN {}
              ELSE LET sid   == assertDivideStates[activeTextEditor]
                       state == heap[sid]
                   IN  {state.targetAssertion.line, FirstTargetLine(sid)}
                       \cup {state.attempt[i].line : i \in 1..Len(state.attempt)})

\* the lines of the document d a notification is given diagnostics on: in a
\* document that is not the active one the first line stands for every line,
\* the listener dropping its diagnostics whole
DiagnosticLinesOf(d) == IF d = activeTextEditor THEN DiagnosticLines ELSE {0}

\* what languages.getDiagnostics() may hold when every diagnostic is of one of
\* the kinds: per uri the diagnostics of that document, at most MaxErrs
\* diagnostics in all
DiagnosticsAmong(kinds) ==
    LET every == UNION {{[uri |-> d, diagnostic |-> Diagnostic(l, u)] :
                            l \in DiagnosticLinesOf(d), u \in kinds} : d \in DOMAIN buffer}
    IN  {[d \in DOMAIN buffer |-> {e.diagnostic : e \in {x \in es : x.uri = d}}] :
            es \in {x \in SUBSET every : Cardinality(x) <= MaxErrs}}

\* what languages.getDiagnostics() may hold, each diagnostic an unproved
\* obligation or something else
AllDiagnostics == DiagnosticsAmong(BOOLEAN)

\* the diagnostics the listener keeps: those of the uri equal to docKey
DiagnosticsOf(allDiagnostics, docKey) ==
    UNION {allDiagnostics[uri] : uri \in {u \in DOMAIN allDiagnostics : u = docKey}}

\* new Set(diagnostics.map(d => d.range.start.line)), the filter being commented out
verificationErrors(diagnostics) == {d.line : d \in diagnostics}

\* !verificationErrors.has(line)
Holds(diagnostics, line) == line \notin verificationErrors(diagnostics)

\* moving up with the history begun anew
PromoteForgetting(state) ==
    [state EXCEPT !.verifiedAssertions = <<state.targetAssertion>>,
                  !.targetAssertion = state.attempt[1],
                  !.attempt = Absent]

\* moving up without `state.attempt = undefined`
PromoteKeepingAttempt(state) ==
    [state EXCEPT !.verifiedAssertions = Append(@, state.targetAssertion),
                  !.targetAssertion = state.attempt[1]]

\* moving up without `state.verifiedAssertions.push(state.targetAssertion)`
PromoteWithoutHistory(state) ==
    [state EXCEPT !.targetAssertion = state.attempt[1],
                  !.attempt = Absent]

\* 'moving up'
Promote(state) ==
    [state EXCEPT !.verifiedAssertions = Append(@, state.targetAssertion),
                  !.targetAssertion = state.attempt[1],
                  !.attempt = Absent]

\* the branches taken with the test of the attempt's line dropped
ClassifyMovingUp(state, diagnostics) ==
    IF state.attempt # Absent
    THEN IF Holds(diagnostics, state.targetAssertion.line) THEN "Promote" ELSE "Ignored"
    ELSE IF Holds(diagnostics, state.targetAssertion.line) THEN "SucceededNoAttempt"
    ELSE "AbandonedNoAttempt"

\* what the listener does with the state it finds, given the diagnostics
Classify(state, diagnostics) ==
    LET targetOK == Holds(diagnostics, state.targetAssertion.line)
    IN  IF state.attempt # Absent
        THEN LET newOK == Holds(diagnostics, state.attempt[1].line)
             IN  IF targetOK
                 THEN IF ~newOK THEN "Promote"
                      ELSE IF newOK THEN "Succeeded"
                      ELSE "Retry"
                 ELSE "Ignored"
        ELSE IF targetOK THEN "SucceededNoAttempt"
        ELSE "AbandonedNoAttempt"

\* the step just taken ran the listener on the state object sid: whether the
\* diagnostics were stale, whether the lines of the target and of the attempt
\* held in them, and what the listener did
Seen(stale, outcome, sid, diagnostics) ==
    [ kind      |-> "feedback",
      stale     |-> stale,
      outcome   |-> outcome,
      sid       |-> sid,
      targetOK  |-> sid # NoState /\ Holds(diagnostics, heap[sid].targetAssertion.line),
      attemptOK |-> /\ sid # NoState
                    /\ heap[sid].attempt # Absent
                    /\ Holds(diagnostics, heap[sid].attempt[1].line) ]

\* one run of handleDiagnosticsChange, languages.getDiagnostics() returning
\* allDiagnostics; stale tells that the diagnostics were computed for a document
\* older than the last attempt issued
handleDiagnosticsChange(allDiagnostics, stale) ==
    /\ UNCHANGED fetcher
    /\ stale => generation > 0
    /\ feedbackDue' = (feedbackDue /\ stale)
    /\ UNCHANGED <<buffer, isDirty, activeTextEditor, building>>
    /\ LET docKey      == activeTextEditor
           sid         == getAssertDivideStates(assertDivideStates, docKey)
           diagnostics == DiagnosticsOf(allDiagnostics, docKey)
       IN  IF sid = NoState
           THEN /\ last' = Seen(stale, "NoState", NoState, diagnostics)
                /\ UNCHANGED <<assertDivideStates, heap, tasks, ghost>>
           ELSE LET state   == heap[sid]
                    outcome == Classify(state, diagnostics)
                    deleted == deleteAssertDivideStates(assertDivideStates, docKey)
                IN  /\ last' = Seen(stale, outcome, sid, diagnostics)
                    /\ CASE outcome = "Promote" ->
                              /\ LET r == tryAssertStep(docKey, assertDivideStates,
                                                        [heap EXCEPT ![sid] = Promote(state)],
                                                        tasks, ghost)
                                 IN  /\ assertDivideStates' = r.map
                                     /\ heap' = r.heap
                                     /\ tasks' = r.tasks
                                     /\ ghost' = r.ghost
                         [] outcome = "Succeeded" ->
                              /\ assertDivideStates' = deleted
                              /\ ghost' = Destroyed(ghost, sid, "Succeeded", 1)
                              /\ UNCHANGED <<heap, tasks>>
                         [] outcome = "Retry" ->
                              \* commentOutLine is not awaited: the edit is applied later
                              /\ LET r == tryAssertStep(docKey, assertDivideStates, heap, tasks,
                                             [ghost EXCEPT ![sid].disables = @ + 1])
                                 IN  /\ assertDivideStates' = r.map
                                     /\ heap' = r.heap
                                     /\ tasks' = r.tasks
                                     /\ ghost' = r.ghost
                         [] outcome = "Ignored" ->
                              UNCHANGED <<assertDivideStates, heap, tasks, ghost>>
                         [] outcome = "SucceededNoAttempt" ->
                              /\ assertDivideStates' = deleted
                              /\ ghost' = Destroyed(ghost, sid, "Succeeded", 0)
                              /\ UNCHANGED <<heap, tasks>>
                         [] outcome = "AbandonedNoAttempt" ->
                              /\ assertDivideStates' = deleted
                              /\ ghost' = Destroyed(ghost, sid, "Abandoned", 0)
                              /\ UNCHANGED <<heap, tasks>>

\* a DiagnosticChangeEvent: the uris whose diagnostics changed
DiagnosticChangeEvent(uris) == [uris |-> uris]

\* the events languages.onDidChangeDiagnostics may fire
DiagnosticChangeEvents == {DiagnosticChangeEvent(uris) : uris \in SUBSET (DOMAIN buffer) \ {{}}}

\* the listener createAndRegister subscribes: it takes no argument, the event
\* is dropped, and handleDiagnosticsChange runs
onDidChangeDiagnostics(event, allDiagnostics, stale) ==
    handleDiagnosticsChange(allDiagnostics, stale)

(***************************************************************************)
(* The counterexample fetcher (class CounterExample): one static timer, a  *)
(* request sent to the language server when it fires.  Time is counted in  *)
(* milliseconds.                                                           *)
(***************************************************************************)
maxRequestsPerSecond == 2

oneSecInMs == 1000

\* how many calls of getCounterExample are made
MaxCalls == 2

\* how many times the clock is moved on
MaxTicks == 3

\* window.activeTextEditor when no editor is open
NoEditor == "undefined"

NoTimeout == <<>>

\* isAutoTriggered ? this.oneSecInMs / this.maxRequestsPerSecond : 1
Delay(isAutoTriggered) ==
    IF isAutoTriggered THEN oneSecInMs \div maxRequestsPerSecond ELSE 1

\* clearTimeout(CounterExample.timeout)
clearTimeout(timeout) == NoTimeout

\* setTimeout(function, delay) called at the time now on behalf of the call id
setTimeout(id, delay, now) == <<[id |-> id, due |-> now + delay]>>

\* the fetcher after construction: no timer, no call made, nothing sent
NewFetcher ==
    [ now       |-> 0,
      ticks     |-> 0,
      calls     |-> <<>>,
      saving    |-> <<>>,
      timeout   |-> NoTimeout,
      sent      |-> <<>>,
      awaiting  |-> {},
      callbacks |-> <<>>,
      errors    |-> 0 ]

\* the variables of the assert-divide loop
loopVars ==
    <<buffer, isDirty, assertDivideStates, heap, tasks, building, ghost, last, feedbackDue>>

\* getCounterExample(callback, isAutoTriggered) up to document.save(): without
\* an active editor it returns; the call records the timer pending when it
\* was made
getCounterExample(isAutoTriggered) ==
    /\ Len(fetcher.calls) < MaxCalls
    /\ LET id   == Len(fetcher.calls) + 1
           call == [ id              |-> id,
                     isAutoTriggered |-> isAutoTriggered,
                     DafnyFile       |-> activeTextEditor,
                     pending         |-> IF fetcher.timeout = NoTimeout THEN 0
                                         ELSE fetcher.timeout[1].id ]
       IN  fetcher' = [fetcher EXCEPT
                          !.calls  = Append(@, call),
                          !.saving = IF activeTextEditor = NoEditor THEN @
                                     ELSE Append(@, id)]
    /\ UNCHANGED <<loopVars, activeTextEditor>>

\* document.save() of the oldest call still saving resolves: the timer is
\* cleared and set anew
SaveResolved ==
    /\ fetcher.saving # <<>>
    /\ LET id == Head(fetcher.saving)
       IN  fetcher' = [fetcher EXCEPT
                          !.saving  = Tail(@),
                          !.timeout = setTimeout(id,
                                                 Delay(fetcher.calls[id].isAutoTriggered),
                                                 fetcher.now)]
    /\ clearTimeout(fetcher.timeout) = NoTimeout
    /\ UNCHANGED <<loopVars, activeTextEditor>>

\* the timer fires, not before it is due: the request is sent
TimerFired ==
    /\ fetcher.timeout # NoTimeout
    /\ fetcher.now >= fetcher.timeout[1].due
    /\ LET id == fetcher.timeout[1].id
       IN  fetcher' = [fetcher EXCEPT
                          !.timeout  = NoTimeout,
                          !.sent     = Append(@, [id |-> id, at |-> fetcher.now]),
                          !.awaiting = @ \cup {id}]
    /\ UNCHANGED <<loopVars, activeTextEditor>>

\* sendRequest resolves (the callback is called with the counterexamples and
\* the flag of its call) or is rejected (an error message is shown)
ResponseArrived(id, resolved) ==
    /\ id \in fetcher.awaiting
    /\ fetcher' = [fetcher EXCEPT
                      !.awaiting  = @ \ {id},
                      !.callbacks = IF resolved
                                    THEN Append(@, [id |-> id,
                                                    isAutoTriggered |->
                                                        fetcher.calls[id].isAutoTriggered])
                                    ELSE @,
                      !.errors    = IF resolved THEN @ ELSE @ + 1]
    /\ UNCHANGED <<loopVars, activeTextEditor>>

\* the milliseconds by which the clock is moved on in one step
TickSteps == {1, 500}

\* time passes
Tick(ms) ==
    /\ fetcher.ticks < MaxTicks
    /\ fetcher' = [fetcher EXCEPT !.now = @ + ms, !.ticks = @ + 1]
    /\ UNCHANGED <<loopVars, activeTextEditor>>

\* the last editor is closed, or a document is shown again
EditorChanged ==
    /\ activeTextEditor' = IF activeTextEditor = NoEditor THEN "a.dfy" ELSE NoEditor
    /\ UNCHANGED <<loopVars, fetcher>>

(***************************************************************************)
(* The specification.                                                      *)
(***************************************************************************)
\* a document of twelve lines, an assert statement on line 10 and lines that
\* are no assert statement elsewhere
LongText ==
    << <<"{">>,
       <<" ", " ", "a", "s", "s", "e", "r", "t", " ", "t">>,
       <<" ", " ", "x", " ", "a", "s", "s", "e", "r", "t", " ", "t", ";">>,
       <<" ", " ", "/", "/", " ", "a", "s", "s", "e", "r", "t", " ", "t", ";">>,
       <<" ", " ", "a", "s", "s", "e", "r", "t", "s", ";">>,
       <<>>,
       <<" ", " ", "x", ";">>,
       <<" ", " ", "a", "s", "s", "u", "m", "e", " ", "t", ";">>,
       <<" ", " ", "A", "s", "s", "e", "r", "t", " ", "t", ";">>,
       <<"\t">>,
       <<" ", " ", "a", "s", "s", "e", "r", "t", " ", "t", ";">>,
       <<"}">> >>

\* a document of three lines, an assert statement on line 1
ShortText ==
    << <<"{">>,
       <<" ", " ", "a", "s", "s", "e", "r", "t", " ", "t", ";">>,
       <<"}">> >>

\* the state after createAndRegister, with the documents open and one of them
\* shown by the active editor
InitWith(documents, active) ==
    /\ buffer = documents
    /\ isDirty = [d \in DOMAIN documents |-> FALSE]
    /\ assertDivideStates = [d \in DOMAIN documents |-> NoState]
    /\ activeTextEditor = active
    /\ heap = <<>>
    /\ tasks = {}
    /\ building = <<>>
    /\ ghost = <<>>
    /\ last = Quiet
    /\ feedbackDue = FALSE
    /\ fetcher = NewFetcher

Init == InitWith([d \in {"a.dfy"} |-> LongText], "a.dfy")

\* the user runs the command with the cursor on a line of the active document
CommandAt == \E cursor \in 0..(Len(buffer[activeTextEditor]) - 1) : handle(cursor)

\* the user runs the command, once in a behaviour of Spec
Command == heap = <<>> /\ CommandAt

Focused == \E t \in tasks : SketchRequested(t)

Suggested == \E t \in tasks : \E resp \in OracleResponses : SketchReturned(t, resp)

Edited == \E t \in tasks : EditApplied(t)

Saved == \E t \in tasks : DocumentSaved(t)

Shown == \E t \in tasks : BuildRequested(t)

Built == \E sid \in 1..Len(heap) : BuildReturned(sid)

DiagnosticsChanged ==
    \E allDiagnostics \in AllDiagnostics : \E stale \in BOOLEAN :
        \E event \in DiagnosticChangeEvents :
            onDidChangeDiagnostics(event, allDiagnostics, stale)

Next ==
    \/ Command
    \/ Focused
    \/ Suggested
    \/ Edited
    \/ Saved
    \/ Shown
    \/ Built
    \/ DiagnosticsChanged

Spec == Init /\ [][Next]_vars

\* the awaits of tryAssertStep resolve, and a build requested is followed by
\* diagnostics computed for the document it was requested on
FreshFeedback ==
    /\ feedbackDue
    /\ \E allDiagnostics \in AllDiagnostics : \E event \in DiagnosticChangeEvents :
           onDidChangeDiagnostics(event, allDiagnostics, FALSE)

FairSpec ==
    /\ Spec
    /\ WF_vars(Focused)
    /\ WF_vars(Suggested)
    /\ WF_vars(Edited)
    /\ WF_vars(Saved)
    /\ WF_vars(Shown)
    /\ WF_vars(Built)
    /\ WF_vars(FreshFeedback)

(***************************************************************************)
(* The command run again on the same document.  The oracle answers with    *)
(* one assertion or fails, every diagnostic is an unproved obligation, and *)
(* notifications are followed while few steps have been started.           *)
(***************************************************************************)
\* how many times the user runs the command on an assert statement
MaxStarts == 2

\* notifications are followed until this many calls of tryAssertStep were made
MaxAdvances == 3

InitSessions == InitWith([d \in {"a.dfy"} |-> ShortText], "a.dfy")

CommandAgain == Len(heap) < MaxStarts /\ CommandAt

\* the oracle answers with one assertion or fails
SuggestedOrFailed ==
    \E t \in tasks : \E resp \in {Response(TRUE, <<>>), Response(FALSE, <<"p">>)} :
        SketchReturned(t, resp)

\* a notification about one document, whose diagnostics are all unproved
\* obligations
DiagnosticsChangedEarly ==
    /\ TotalAdvances < MaxAdvances
    /\ \E allDiagnostics \in DiagnosticsAmong({TRUE}) : \E stale \in BOOLEAN :
           \E uri \in DOMAIN buffer :
               onDidChangeDiagnostics(DiagnosticChangeEvent({uri}), allDiagnostics, stale)

NextSessions ==
    \/ CommandAgain
    \/ Focused
    \/ SuggestedOrFailed
    \/ Edited
    \/ Saved
    \/ Shown
    \/ Built
    \/ DiagnosticsChangedEarly

SpecSessions == InitSessions /\ [][NextSessions]_vars

(***************************************************************************)
(* Two documents, the command run once on each.                            *)
(***************************************************************************)
InitDocuments == InitWith([d \in {"a.dfy", "b.dfy"} |-> ShortText], "a.dfy")

\* the user runs the command on a document it was not run on before
CommandOnce ==
    /\ \A sid \in 1..Len(heap) : ghost[sid].doc # activeTextEditor
    /\ CommandAt

\* the user shows another document: it becomes the active editor's
Switched ==
    /\ UNCHANGED fetcher
    /\ \E d \in DOMAIN buffer \ {activeTextEditor} : activeTextEditor' = d
    /\ last' = Quiet
    /\ UNCHANGED <<buffer, isDirty, assertDivideStates, heap, tasks, building, ghost,
                   feedbackDue>>

NextDocuments ==
    \/ CommandOnce
    \/ Switched
    \/ Focused
    \/ SuggestedOrFailed
    \/ Edited
    \/ Saved
    \/ Shown
    \/ Built
    \/ DiagnosticsChangedEarly

SpecDocuments == InitDocuments /\ [][NextDocuments]_vars

(***************************************************************************)
(* The functions on the text of a document, each called on its own: a      *)
(* document is open, and commentOutLine, getAssertionContext and            *)
(* extractAssertInfo are called with any of its lines.                      *)
(***************************************************************************)
\* how many comment prefixes the lines of a document hold in all
MaxCommentDepth == 2

\* a document whose lines hold more than one statement, or an assert statement
\* without expression, or with a comment after it
MixedText ==
    << <<"a", "s", "s", "e", "r", "t", " ", "t", ";", " ", "x", ";">>,
       <<" ", "a", "s", "s", "e", "r", "t", "s", ";", " ", "a", "s", "s", "e", "r", "t",
         " ", "t", ";">>,
       <<"a", "s", "s", "e", "r", "t", " ", ";">>,
       <<"a", "s", "s", "e", "r", "t", "\t", " ", "t", " ", ";", " ", "/", "/", "c">>,
       <<"a", "s", "s", "e", "r", "t", "(", "t", ")", ";">>,
       <<"a", "s", "s", "e", "r", "t", " ", "a", ";", "a", "s", "s", "e", "r", "t", " ",
         "b", ";">> >>

Texts == {LongText, ShortText, MixedText}

InitText == \E text \in Texts : InitWith([d \in {"a.dfy"} |-> text], "a.dfy")

\* how many times the line begins with the comment prefix
RECURSIVE CommentDepth(_)
CommentDepth(text) ==
    IF StartsWith(text, CommentPrefix)
    THEN 1 + CommentDepth(Sub(text, Len(CommentPrefix) + 1, Len(text)))
    ELSE 0

RECURSIVE Disables(_)
Disables(buf) ==
    IF buf = <<>> THEN 0 ELSE CommentDepth(Head(buf)) + Disables(Tail(buf))

\* the step just taken called the function name with the line `line` of the
\* active document and got result
Called(name, line, result) == [kind |-> name, line |-> line, result |-> result]

\* commentOutLine(client, editor, line) resolves: the document is focused, the
\* edit applied and saved
Disabled ==
    /\ UNCHANGED fetcher
    /\ Disables(buffer[activeTextEditor]) < MaxCommentDepth
    /\ \E line \in 0..(Len(buffer[activeTextEditor]) - 1) :
           /\ buffer' = [buffer EXCEPT ![activeTextEditor] = commentOutLine(@, line)]
           /\ last' = Called("commentOutLine", line, <<>>)
    /\ isDirty' = save(isDirty, activeTextEditor)
    /\ activeTextEditor' = focusDocument(activeTextEditor)
    /\ UNCHANGED <<assertDivideStates, heap, tasks, building, ghost, feedbackDue>>

\* getAssertionContext(editor, line) returns
ContextBuilt ==
    /\ UNCHANGED fetcher
    /\ \E line \in 0..(Len(buffer[activeTextEditor]) - 1) :
           last' = Called("getAssertionContext", line,
                          getAssertionContext(buffer[activeTextEditor], line))
    /\ UNCHANGED <<buffer, isDirty, assertDivideStates, activeTextEditor, heap, tasks,
                   building, ghost, feedbackDue>>

\* extractAssertInfo(editor) returns, the cursor being on the line `cursor`
Extracted ==
    /\ UNCHANGED fetcher
    /\ \E cursor \in 0..(Len(buffer[activeTextEditor]) - 1) :
           last' = Called("extractAssertInfo", cursor,
                          extractAssertInfo(buffer[activeTextEditor], cursor))
    /\ UNCHANGED <<buffer, isDirty, assertDivideStates, activeTextEditor, heap, tasks,
                   building, ghost, feedbackDue>>

NextText ==
    \/ Disabled
    \/ ContextBuilt
    \/ Extracted

SpecText == InitText /\ [][NextText]_vars

(***************************************************************************)
(* The counterexample fetcher called by the user and by the editor, while  *)
(* time passes.                                                            *)
(***************************************************************************)
InitFetcher == InitWith([d \in {"a.dfy"} |-> ShortText], "a.dfy")

Requested == \E isAutoTriggered \in BOOLEAN : getCounterExample(isAutoTriggered)

Responded ==
    \E id \in fetcher.awaiting : \E resolved \in BOOLEAN : ResponseArrived(id, resolved)

TimePassed == \E ms \in TickSteps : Tick(ms)

NextFetcher ==
    \/ Requested
    \/ SaveResolved
    \/ TimerFired
    \/ Responded
    \/ TimePassed
    \/ EditorChanged

SpecFetcher == InitFetcher /\ [][NextFetcher]_vars

(***************************************************************************)
(* The properties.                                                         *)
(***************************************************************************)
Sids == 1..Len(heap)

\* the document key doc has an entry in the Map
SessionLive(doc) == getAssertDivideStates(assertDivideStates, doc) # NoState

TasksOf(sid) == {t \in tasks : t.sid = sid}

C2_SessionTerminates == SessionLive("a.dfy") ~> ~SessionLive("a.dfy")

\* C3: a notification that finds an attempt pending and the target line not
\* holding comments out the attempt's line, clears the attempt, keeps target
\* and history, and calls tryAssertStep again.
C3_RetryWhenTargetFails ==
    [][\A sid \in Sids :
          (/\ last'.kind = "feedback"
           /\ last'.sid = sid
           /\ heap[sid].attempt # Absent
           /\ ~last'.targetOK)
          => /\ buffer' = [buffer EXCEPT ![ghost[sid].doc] =
                                commentOutLine(@, heap[sid].attempt[1].line)]
             /\ ghost'[sid].disables = ghost[sid].disables + 1
             /\ ghost'[sid].advances = ghost[sid].advances + 1
             /\ heap'[sid].attempt = Absent
             /\ heap'[sid].targetAssertion = heap[sid].targetAssertion
             /\ heap'[sid].verifiedAssertions = heap[sid].verifiedAssertions]_vars

\* C4: a notification whose diagnostics were computed before the last attempt
\* was issued changes nothing: not the session, not the document, and it starts
\* no step.
C4_StaleFeedbackIgnored ==
    [][(last'.kind = "feedback" /\ last'.stale)
          => UNCHANGED <<buffer, assertDivideStates, heap, tasks, building, ghost>>]_vars

\* C5: per session at most one call of tryAssertStep has not returned, and none
\* is running while the answer to the last build request is still due.
C5_OneAdvanceInFlight ==
    \A sid \in Sids :
        /\ Cardinality(TasksOf(sid)) + building[sid] <= 1
        /\ TasksOf(sid) # {} => ~feedbackDue

ExhaustedStep(sid) ==
    /\ ghost'[sid].outcome = "Exhausted"
    /\ ~SessionLive(ghost[sid].doc)'
    /\ heap'[sid].depth = heap[sid].depth
    /\ ghost'[sid].sketches = ghost[sid].sketches
    /\ ghost'[sid].inserts = ghost[sid].inserts
    /\ ghost'[sid].builds = ghost[sid].builds
    /\ UNCHANGED <<buffer, tasks, building>>

C8_AtMostSixCandidates ==
    \A sid \in Sids :
        /\ ghost[sid].sketches <= MAX_DEPTH + 1
        /\ ghost[sid].inserts <= MAX_DEPTH + 1

C8_SixCandidates ==
    \E sid \in Sids : ghost[sid].sketches = MAX_DEPTH + 1 /\ ghost[sid].inserts = MAX_DEPTH + 1

\* C9: whenever a state object has an attempt, the attempt's line is the line
\* just above the target's.
C9_AttemptAboveTarget ==
    \A sid \in Sids :
        heap[sid].attempt # Absent
        => heap[sid].attempt[1].line = heap[sid].targetAssertion.line - 1

C9_SecondAttempt ==
    \E sid \in Sids :
        /\ heap[sid].attempt # Absent
        /\ ghost[sid].builds >= 2
        /\ heap[sid].verifiedAssertions # <<>>

\* C10: tryAssertStep records an attempt only on a state object that has none,
\* and only one call at a time is on its way to recording one.
C10_AttemptSetWhenAbsent ==
    [][\A sid \in Sids :
          /\ ghost'[sid].builds > ghost[sid].builds
                => heap[sid].attempt = Absent /\ heap'[sid].attempt # Absent
          /\ Cardinality({t \in tasks' : t.sid = sid}) <= 1]_vars

C10_AttemptAfterPromote ==
    \E sid \in Sids :
        /\ heap[sid].attempt # Absent
        /\ ghost[sid].builds = 3
        /\ Len(heap[sid].verifiedAssertions) = 2

\* the notification the step taken handled found the state object sid
FeedbackOn(sid) == last'.kind = "feedback" /\ last'.sid = sid

\* the outcomes that end a session
Terminal == {"Succeeded", "Abandoned", "Exhausted"}

\* C11: a notification that finds an attempt pending, the target line holding
\* and the attempt line not holding appends the old target to the history,
\* makes the attempt (same line, same statement) the target, clears the attempt
\* and calls tryAssertStep again.
C11_Promote ==
    [][\A sid \in Sids :
          (/\ FeedbackOn(sid)
           /\ heap[sid].attempt # Absent
           /\ last'.targetOK
           /\ ~last'.attemptOK)
          => /\ heap'[sid].verifiedAssertions =
                    Append(heap[sid].verifiedAssertions, heap[sid].targetAssertion)
             /\ heap'[sid].targetAssertion = heap[sid].attempt[1]
             /\ heap'[sid].attempt = Absent
             /\ ghost'[sid].advances = ghost[sid].advances + 1]_vars

C11_Promoted ==
    /\ last.kind = "feedback"
    /\ last.targetOK
    /\ ~last.attemptOK
    /\ last.sid # NoState
    /\ Len(heap[last.sid].verifiedAssertions) = 1
    /\ heap[last.sid].attempt = Absent
    /\ heap[last.sid].targetAssertion.line = 10
    /\ heap[last.sid].verifiedAssertions[1].line = 11
    /\ ghost[last.sid].advances = 2

\* C12: a notification that finds an attempt pending and both lines holding
\* ends the session as Succeeded: the entry is deleted, one message is shown,
\* and neither that step nor any later one calls tryAssertStep, inserts or
\* comments out a line for it.
C12_Succeeded ==
    [][\A sid \in Sids :
          /\ (/\ FeedbackOn(sid)
              /\ heap[sid].attempt # Absent
              /\ last'.targetOK
              /\ last'.attemptOK)
             => /\ ~SessionLive(ghost[sid].doc)'
                /\ ghost'[sid] = [ghost[sid] EXCEPT !.outcome = "Succeeded",
                                                    !.messages = @ + 1]
                /\ UNCHANGED <<buffer, heap, tasks>>
          /\ (ghost[sid].outcome = "Succeeded" /\ heap[sid].attempt # Absent)
             => /\ ghost'[sid] = ghost[sid]
                /\ heap'[sid] = heap[sid]
                /\ TasksOf(sid) = {}
                /\ buffer' = buffer]_vars

\* Scenario A: the target on line 10, one assertion inserted, the attempt on
\* line 10 and the target on line 11, both holding: Succeeded after one step.
C12_ScenarioA ==
    \E sid \in Sids :
        /\ ghost[sid].outcome = "Succeeded"
        /\ ghost[sid].advances = 1
        /\ ghost[sid].inserts = 1
        /\ ghost[sid].messages = 1
        /\ heap[sid].attempt # Absent
        /\ heap[sid].attempt[1].line = 10
        /\ heap[sid].targetAssertion.line = 11
        /\ heap[sid].verifiedAssertions = <<>>

\* the sketch is one bare statement: no leading keyword, no terminator or
\* separator, no line break
BareStatement(sketch) ==
    /\ ~StartsWith(sketch, KwAssert)
    /\ ~Includes(sketch, ";")
    /\ ~Includes(sketch, "\n")

\* number of semicolons in a line
RECURSIVE Semicolons(_)
Semicolons(text) ==
    IF text = <<>> THEN 0
    ELSE (IF Head(text) = ";" THEN 1 ELSE 0) + Semicolons(Tail(text))

\* C13: an answer of the oracle that is not one bare statement ends the
\* session with nothing inserted, and no line of a document holds more than
\* one statement.
C13_MalformedRejected ==
    [][/\ \A t \in tasks : \A resp \in OracleResponses :
             (/\ ~resp.throws
              /\ resp.sketch # <<>>
              /\ ~BareStatement(resp.sketch)
              /\ SketchReturned(t, resp))
             => /\ tasks' = tasks \ {t}
                /\ ~SessionLive(t.doc)'
                /\ buffer' = buffer
       /\ \A doc \in DOMAIN buffer : \A i \in 1..Len(buffer'[doc]) :
             Semicolons(buffer'[doc][i]) <= 1]_vars

\* C14: when the oracle fails or answers nothing, the step deletes the entry
\* of its document (a session then live ends as Abandoned), inserts nothing and
\* requests no build; the document is not changed while the step waits for the
\* oracle.
C14_OracleFailureAbandons ==
    [][\A t \in tasks :
          /\ \A resp \in OracleResponses :
                ((resp.throws \/ resp.sketch = <<>>) /\ SketchReturned(t, resp))
                => /\ ~SessionLive(t.doc)'
                   /\ ghost'[t.sid].outcome =
                          (IF ghost[t.sid].outcome = "Live" THEN "Abandoned"
                           ELSE ghost[t.sid].outcome)
                   /\ ghost'[t.sid].inserts = ghost[t.sid].inserts
                   /\ ghost'[t.sid].builds = ghost[t.sid].builds
                   /\ tasks' = tasks \ {t}
                   /\ UNCHANGED <<buffer, building>>
          /\ t.pc \in {"focusSketch", "sketch"} => buffer' = buffer]_vars

C14_Abandoned ==
    \E sid \in Sids :
        /\ ghost[sid].outcome = "Abandoned"
        /\ ghost[sid].advances = 2
        /\ ghost[sid].sketches = 2
        /\ ghost[sid].inserts = 1
        /\ ghost[sid].builds = 1
        /\ heap[sid].attempt = Absent
        /\ TasksOf(sid) = {}
        /\ ~SessionLive(ghost[sid].doc)

\* the line is an assert statement: the keyword, an expression, the terminator
RecognisedObligation(text) ==
    LET s == Trim(text)
    IN  /\ StartsWith(s, KwAssert)
        /\ Len(s) > Len(KwAssert) + 1
        /\ s[Len(KwAssert) + 1] \in Whitespace
        /\ s[Len(s)] = ";"

C16_AttemptAbsentTerminates ==
    [][\A sid \in Sids :
          /\ (FeedbackOn(sid) /\ heap[sid].attempt = Absent)
             => /\ ~SessionLive(ghost[sid].doc)'
                /\ ghost'[sid].outcome =
                       (IF last'.targetOK THEN "Succeeded" ELSE "Abandoned")
          /\ ghost[sid].outcome \in {"Succeeded", "Abandoned"}
             => /\ ghost'[sid].advances = ghost[sid].advances
                /\ ghost'[sid].inserts = ghost[sid].inserts
                /\ ghost'[sid].disables = ghost[sid].disables]_vars

\* C17: once the command has replaced a session, (a) a notification whose
\* diagnostics are older than the new session leaves the new session as it
\* is, and (b) a step of the old session still under way inserts nothing
\* more and leaves the new session's state object and entry as they are.
C17_RestartDiscardsOld ==
    [][\A old \in Sids : \A new \in Sids :
          (/\ ghost[old].outcome = "Replaced"
           /\ new > old
           /\ SessionLive(ghost[new].doc)
           /\ assertDivideStates[ghost[new].doc] = new)
          => /\ (last'.kind = "feedback" /\ last'.stale /\ ghost[new].builds = 0)
                => /\ heap'[new] = heap[new]
                   /\ assertDivideStates' = assertDivideStates
             /\ ghost'[old].inserts = ghost[old].inserts
             /\ (\E t \in tasks \ tasks' : t.sid = old)
                => /\ heap'[new] = heap[new]
                   /\ assertDivideStates' = assertDivideStates]_vars

\* C18: once a session has ended as Succeeded, Abandoned or Exhausted, nothing
\* more is done for it: no call of tryAssertStep, no sketch request, no
\* insertion, no commenting out, no build, and its document stays as it is.
C18_QuietAfterTerminal ==
    [][\A sid \in Sids :
          ghost[sid].outcome \in Terminal
          => /\ ghost'[sid] = ghost[sid]
             /\ buffer'[ghost[sid].doc] = buffer[ghost[sid].doc]]_vars

\* C19: a session that has ended has shown the user exactly one message, a
\* session that has not has shown none.
C19_OneMessagePerOutcome ==
    \A sid \in Sids :
        ghost[sid].messages = (IF ghost[sid].outcome \in Terminal THEN 1 ELSE 0)

\* C20: each document key has at most one session not yet ended, it is the
\* one the Map holds for the key, and a step changes the entry of no key but
\* the one it acts for.
C20_OneSessionPerBuffer ==
    [][/\ \A doc \in DOMAIN buffer :
             LET live == {sid \in 1..Len(ghost') :
                             ghost'[sid].doc = doc /\ ghost'[sid].outcome = "Live"}
             IN  /\ Cardinality(live) <= 1
                 /\ live = (IF assertDivideStates'[doc] = NoState THEN {}
                            ELSE {assertDivideStates'[doc]})
       /\ \A doc \in DOMAIN buffer :
             assertDivideStates'[doc] # assertDivideStates[doc]
             => \/ last'.kind \in {"handle", "feedback"} /\ doc = activeTextEditor
                \/ \E t \in tasks \ tasks' : t.doc = doc]_vars

C20_TwoDocuments ==
    \E sid \in Sids : \E doc \in DOMAIN buffer :
        /\ ghost[sid].outcome \in Terminal
        /\ doc # ghost[sid].doc
        /\ ~SessionLive(ghost[sid].doc)
        /\ SessionLive(doc)
        /\ heap[assertDivideStates[doc]].attempt # Absent

\* the documents a notification concerns all have no entry in the Map
ConcernsNoSession(event) == \A uri \in event.uris : ~SessionLive(uri)

\* C21: for a notification the listener classifies, the target and the attempt
\* hold or fail by the diagnostics of the session's own document alone, and a
\* notification that concerns only documents without a session changes no
\* session: the Map, the state objects, the steps under way and what was done
\* on behalf of each session stay as they are.
C21_OwnBufferOnly ==
    [][last'.kind = "feedback" =>
          \A event \in DiagnosticChangeEvents : \A allDiagnostics \in AllDiagnostics :
              \A stale \in BOOLEAN :
                  onDidChangeDiagnostics(event, allDiagnostics, stale) =>
                      /\ last'.sid # NoState =>
                            LET state == heap[last'.sid]
                                own   == allDiagnostics[ghost[last'.sid].doc]
                            IN  /\ last'.targetOK = Holds(own, state.targetAssertion.line)
                                /\ state.attempt # Absent =>
                                       last'.attemptOK = Holds(own, state.attempt[1].line)
                      /\ ConcernsNoSession(event) =>
                            UNCHANGED <<assertDivideStates, heap, tasks, ghost>>]_vars

\* the diagnostics hold an unresolved obligation on the line
Unresolved(diagnostics, line) == \E d \in diagnostics : d.line = line /\ d.unproved

\* C22: when the listener classifies a session, the target (and the attempt, if
\* one is pending) is found to hold exactly if the diagnostics of the document
\* have no unresolved obligation on its line; a diagnostic of another kind on
\* the line does not make it fail.
C22_HoldsIffNoUnresolved ==
    [][last'.kind = "feedback" /\ last'.sid # NoState =>
          \A allDiagnostics \in AllDiagnostics :
              handleDiagnosticsChange(allDiagnostics, last'.stale) =>
                  LET state == heap[last'.sid]
                      own   == allDiagnostics[ghost[last'.sid].doc]
                  IN  /\ last'.targetOK = ~Unresolved(own, state.targetAssertion.line)
                      /\ state.attempt # Absent =>
                             last'.attemptOK = ~Unresolved(own, state.attempt[1].line)]_vars

\* the line `    assert <assertion>; // Intermediate step` as the document holds it
StepLine(assertion) ==
    <<" ", " ", " ", " ", "a", "s", "s", "e", "r", "t", " ">> \o assertion
    \o <<";", " ", "/", "/", " ", "I", "n", "t", "e", "r", "m", "e", "d", "i", "a", "t", "e",
         " ", "s", "t", "e", "p">>

ExhaustedNow(sid) == ghost[sid].outcome = "Live" /\ ghost'[sid].outcome = "Exhausted"

\* C24: the depth of a session counts from 0 the calls of tryAssertStep that
\* went on to ask for a candidate: a session just created has made one such
\* call and has depth 1, no step decreases the depth, a step changes it by one
\* exactly if it is such a call, and every insertion is made by a call of its
\* own that was counted, so that at most depth insertions have been made.
C24_DepthCountsAdvances ==
    [][/\ \A sid \in (1..Len(heap')) \ Sids :
              heap'[sid].depth = 1 /\ ghost'[sid].advances = 1 /\ ghost'[sid].inserts = 0
       /\ \A sid \in Sids :
              /\ heap'[sid].depth >= heap[sid].depth
              /\ heap'[sid].depth - heap[sid].depth
                     = IF ghost'[sid].advances > ghost[sid].advances /\ ~ExhaustedNow(sid)
                       THEN 1 ELSE 0
              /\ ghost'[sid].advances - ghost[sid].advances \in {0, 1}
              /\ ghost'[sid].inserts - ghost[sid].inserts \in {0, 1}
              /\ ghost'[sid].inserts > ghost[sid].inserts =>
                     /\ heap'[sid].depth = heap[sid].depth
                     /\ ghost'[sid].inserts = heap'[sid].depth
              /\ ghost'[sid].inserts <= heap'[sid].depth]_vars

\* three candidates were inserted by three counted calls
C24_ThreeInserted ==
    \E sid \in Sids :
        heap[sid].depth = 3 /\ ghost[sid].inserts = 3 /\ ghost[sid].advances = 3

\* C25: the history of a session begins empty, and every step leaves it as it
\* is or appends one entry to it; the step that appends is the listener moving
\* up, the entry appended is the target of before the step, and the entries
\* already there keep their places and values.
C25_HistoryAppendOnly ==
    [][/\ \A sid \in (1..Len(heap')) \ Sids : heap'[sid].verifiedAssertions = <<>>
       /\ \A sid \in Sids :
              \/ heap'[sid].verifiedAssertions = heap[sid].verifiedAssertions
              \/ /\ heap'[sid].verifiedAssertions
                        = Append(heap[sid].verifiedAssertions, heap[sid].targetAssertion)
                 /\ FeedbackOn(sid)
                 /\ last'.outcome = "Promote"
                 /\ heap[sid].attempt # Absent
                 /\ heap'[sid].targetAssertion = heap[sid].attempt[1]]_vars

\* the history after moving up twice: the first target, then the first candidate
C25_TwoPromoted ==
    \E sid \in Sids :
        /\ last.kind = "feedback" /\ last.sid = sid /\ last.outcome = "Promote"
        /\ Len(heap[sid].verifiedAssertions) = 2
        /\ heap[sid].verifiedAssertions[1].assertion = <<"t">>
        /\ heap[sid].verifiedAssertions[2].assertion = <<"p">>

\* C26: a call of tryAssertStep that has obtained a candidate inserts one line
\* holding it at the line the target is on: the lines before stay as they are,
\* the target's line and those after it move down by one, the document grows
\* by one line; and when the call then records the attempt, the line of the
\* target is one more than before, its statement is unchanged, and the
\* document is not touched.
C26_InsertFrame ==
    [][\A sid \in Sids :
          /\ ghost'[sid].inserts > ghost[sid].inserts =>
                 \E t \in TasksOf(sid) :
                     LET doc  == t.doc
                         L    == heap[sid].targetAssertion.line
                         old  == buffer[doc]
                         new  == buffer'[doc]
                     IN  /\ t.pc = "focusInsert"
                         /\ L < Len(old)
                         /\ Len(new) = Len(old) + 1
                         /\ \A i \in 1..L : new[i] = old[i]
                         /\ new[L + 1] = StepLine(t.intermediate[1].assertion)
                         /\ \A i \in (L + 1)..Len(old) : new[i + 1] = old[i]
                         /\ \A d \in DOMAIN buffer \ {doc} : buffer'[d] = buffer[d]
                         /\ heap' = heap
          /\ ghost'[sid].builds > ghost[sid].builds =>
                 /\ heap'[sid].targetAssertion.line = heap[sid].targetAssertion.line + 1
                 /\ heap'[sid].targetAssertion.assertion = heap[sid].targetAssertion.assertion
                 /\ buffer' = buffer
          /\ (ghost'[sid].inserts = ghost[sid].inserts /\ ghost'[sid].builds = ghost[sid].builds)
                 => /\ buffer' = buffer
                    /\ heap'[sid].targetAssertion.line = heap[sid].targetAssertion.line
                       \/ (FeedbackOn(sid) /\ last'.outcome = "Promote")]_vars

\* the second candidate stands just above the first, which stands just above
\* the statement the command was run on, now two lines further down
C26_TwoInserted ==
    \E sid \in Sids :
        LET doc == ghost[sid].doc
        IN  /\ ghost[sid].inserts = 2
            /\ ghost[sid].builds = 2
            /\ Len(buffer[doc]) = Len(LongText) + 2
            /\ buffer[doc][11] = StepLine(<<"p">>)
            /\ buffer[doc][12] = StepLine(<<"p">>)
            /\ buffer[doc][13] = LongText[11]
            /\ heap[sid].targetAssertion.line = 11
            /\ heap[sid].attempt # Absent
            /\ heap[sid].attempt[1].line = 10

\* C27: commentOutLine turns the line it is given into a comment and deletes
\* nothing: the line is the old line behind the prefix '// ', the document has
\* as many lines as before, every other line is as before, and no session and
\* no line number of a target changes.
C27_DisableFrame ==
    [][last'.kind = "commentOutLine" =>
          LET doc == activeTextEditor
              old == buffer[doc]
              new == buffer'[doc]
              L   == last'.line
          IN  /\ Len(new) = Len(old)
              /\ new[L + 1] = <<"/", "/", " ">> \o old[L + 1]
              /\ \A i \in 1..Len(old) : i # L + 1 => new[i] = old[i]
              /\ UNCHANGED <<assertDivideStates, heap, tasks, ghost>>]_vars

\* the assert statement of a document was commented out
C27_AssertDisabled ==
    /\ last.kind = "commentOutLine"
    /\ last.line = 10
    /\ Len(buffer[activeTextEditor]) = Len(LongText)
    /\ buffer[activeTextEditor][11] = <<"/", "/", " ">> \o LongText[11]
    /\ buffer[activeTextEditor][10] = LongText[10]

\* the lines of a text each of which ends with a line break
WindowLines(text) ==
    LET pieces == SplitLines(text) IN Sub(pieces, 1, Len(pieces) - 1)

\* C28: the context built for line L of a document of n lines is the lines
\* with index from max(0, L - 5) up to but without min(n, L + 5), in their
\* order, each as it is in the document but line L, which stands between
\* '>>> ' and ' <<<'; building it changes neither the document nor a session.
C28_ContextWindow ==
    [][last'.kind = "getAssertionContext" =>
          LET buf    == buffer[activeTextEditor]
              L      == last'.line
              n      == Len(buf)
              lo     == IF L - 5 > 0 THEN L - 5 ELSE 0
              hi     == IF L + 5 < n THEN L + 5 ELSE n
              window == WindowLines(last'.result)
          IN  /\ Len(window) = hi - lo
              /\ \A i \in lo..(hi - 1) :
                     window[i - lo + 1] =
                         IF i = L
                         THEN <<">", ">", ">", " ">> \o buf[i + 1] \o <<" ", "<", "<", "<">>
                         ELSE buf[i + 1]
              /\ last'.result = <<>> \/ last'.result[Len(last'.result)] = "\n"
              /\ UNCHANGED <<buffer, assertDivideStates, heap, tasks, ghost>>]_vars

\* a window cut by neither end of the document: five lines before the line,
\* the line between the markers, four lines after it
C28_FullWindow ==
    /\ last.kind = "getAssertionContext"
    /\ last.line = 6
    /\ buffer[activeTextEditor] = LongText
    /\ Len(WindowLines(last.result)) = 10
    /\ WindowLines(last.result)[1] = LongText[2]
    /\ WindowLines(last.result)[6] = <<">", ">", ">", " ", " ", " ", "x", ";", " ", "<", "<", "<">>
    /\ WindowLines(last.result)[10] = LongText[11]

\* the trimmed line is one assert statement and nothing else: the keyword,
\* white space, an expression without terminator, the terminator
SingleStatement(text) ==
    LET s == Trim(text)
    IN  /\ StartsWith(s, KwAssert)
        /\ Len(s) > Len(KwAssert) + 1
        /\ s[Len(KwAssert) + 1] \in Whitespace
        /\ s[Len(s)] = ";"
        /\ \A k \in 1..(Len(s) - 1) : s[k] # ";"
        /\ Trim(Sub(s, Len(KwAssert) + 1, Len(s) - 1)) # <<>>

\* the expression of such a line, trimmed
StatementOf(text) ==
    LET s == Trim(text) IN Trim(Sub(s, Len(KwAssert) + 1, Len(s) - 1))

\* C29: extractAssertInfo accepts the line of the cursor exactly if the line is
\* one assert statement (keyword, expression, terminator) and nothing else; it
\* then returns the cursor's line and the trimmed expression; on every other
\* line, also one holding two statements or beginning with an identifier that
\* begins with 'assert', it returns nothing.
C29_ExtractorAccepts ==
    [][last'.kind = "extractAssertInfo" =>
          LET text == buffer[activeTextEditor][last'.line + 1]
          IN  IF SingleStatement(text)
              THEN last'.result = <<[line |-> last'.line, assertion |-> StatementOf(text)]>>
              ELSE last'.result = <<>>]_vars

\* C30: progress is not guaranteed.  A session can end as Exhausted, and one
\* that does has spent the whole budget without success: it was live until
\* the step that ended it, it made MAX_DEPTH + 1 = 6 counted calls, each of
\* which got a candidate from the oracle, inserted it and had it built, each
\* candidate was moved up in turn, and the statement the command was run on
\* is the first entry of the history and was never found proved with its
\* attempt.
C30_ExhaustedWithoutSuccess ==
    [][\A sid \in Sids :
          ghost'[sid].outcome = "Exhausted" =>
              /\ ghost[sid].outcome \in {"Live", "Exhausted"}
              /\ heap'[sid].depth = MAX_DEPTH + 1
              /\ ghost'[sid].sketches = MAX_DEPTH + 1
              /\ ghost'[sid].inserts = MAX_DEPTH + 1
              /\ ghost'[sid].builds = MAX_DEPTH + 1
              /\ Len(heap'[sid].verifiedAssertions) = MAX_DEPTH + 1
              /\ heap'[sid].attempt = Absent
              /\ ghost[sid].outcome = "Live" =>
                     /\ FeedbackOn(sid)
                     /\ last'.outcome = "Promote"
                     /\ ghost'[sid].messages = 1]_vars

\* the oracle answered 'p' six times, the verifier found each candidate
\* unproved and the line below it proved, and the session ended as Exhausted
C30_BudgetSpent ==
    \E sid \in Sids :
        /\ ghost[sid].outcome = "Exhausted"
        /\ ~SessionLive(ghost[sid].doc)
        /\ Len(buffer[ghost[sid].doc]) = Len(LongText) + MAX_DEPTH + 1
        /\ \A i \in 11..(11 + MAX_DEPTH) : buffer[ghost[sid].doc][i] = StepLine(<<"p">>)
        /\ heap[sid].verifiedAssertions[1].assertion = <<"t">>
        /\ heap[sid].targetAssertion.assertion = <<"p">>

\* C31: any two requests the fetcher sends to the language server are at least
\* 1000 / 2 = 500 milliseconds apart, whatever calls were made.
C31_TwoRequestsPerSecond ==
    \A i \in 1..Len(fetcher.sent) : \A j \in 1..Len(fetcher.sent) :
        i < j => fetcher.sent[j].at - fetcher.sent[i].at >= 500

\* the calls whose request was sent
SentIds == {fetcher.sent[i].id : i \in 1..Len(fetcher.sent)}

\* C40: a call of getCounterExample made with an editor open while the timer
\* of an earlier call is pending cancels that earlier request: it is never
\* sent and its callback is never called; and a callback that is called gets
\* the isAutoTriggered flag of its own call.
C40_LaterCallCancels ==
    /\ \A i \in 1..Len(fetcher.calls) :
           LET call == fetcher.calls[i]
           IN  (call.DafnyFile # NoEditor /\ call.pending # 0) =>
                   /\ call.pending \notin SentIds
                   /\ \A k \in 1..Len(fetcher.callbacks) :
                          fetcher.callbacks[k].id # call.pending
    /\ \A k \in 1..Len(fetcher.callbacks) :
           fetcher.callbacks[k].isAutoTriggered
               = fetcher.calls[fetcher.callbacks[k].id].isAutoTriggered

\* C32: nothing is inserted and no build is requested on behalf of a session
\* that was destroyed, whatever call of tryAssertStep was under way when the
\* notification or the command destroyed it.
C32_NoInsertAfterDestroyed ==
    [][\A sid \in Sids :
          ghost[sid].outcome # "Live" =>
              /\ ghost'[sid].inserts = ghost[sid].inserts
              /\ ghost'[sid].builds = ghost[sid].builds]_vars

\* C33: a notification that finds a call of tryAssertStep of the session still
\* under way (the attempt not yet recorded, the build not yet requested)
\* leaves the session live and its state object as it is.
C33_QuietWhileAdvancing ==
    [][\A sid \in Sids :
          (FeedbackOn(sid) /\ TasksOf(sid) # {}) =>
              /\ SessionLive(ghost[sid].doc)'
              /\ assertDivideStates' = assertDivideStates
              /\ heap'[sid] = heap[sid]]_vars

\* the line of the document the obligation records holds its statement: as the
\* statement the command was run on, or as an inserted candidate
StatementAt(buf, obligation) ==
    /\ obligation.line < Len(buf)
    /\ \/ buf[obligation.line + 1] = StepLine(obligation.assertion)
       \/ extractAssertInfo(buf, obligation.line) = <<obligation>>

\* C34: whenever the listener classifies a session, the line the target
\* records holds the target's statement, and the line a pending attempt
\* records holds the attempt's statement.
C34_LinesTrackBuffer ==
    [][\A sid \in Sids :
          FeedbackOn(sid) =>
              /\ StatementAt(buffer[ghost[sid].doc], heap[sid].targetAssertion)
              /\ heap[sid].attempt # Absent =>
                     StatementAt(buffer[ghost[sid].doc], heap[sid].attempt[1])]_vars

\* C35: when the listener ends a session as succeeded, the diagnostics it
\* decided on hold no unresolved obligation on the line of the statement the
\* command was run on, also after the session has moved up.
C35_SuccessMeansFirstTarget ==
    [][\A sid \in Sids :
          (FeedbackOn(sid) /\ last'.outcome \in {"Succeeded", "SucceededNoAttempt"}) =>
              \A allDiagnostics \in AllDiagnostics :
                  handleDiagnosticsChange(allDiagnostics, last'.stale) =>
                      ~Unresolved(allDiagnostics[ghost[sid].doc], FirstTargetLine(sid))]_vars

\* the insertions made into the document doc and not yet followed by the build
\* of their call, over the first n sessions
RECURSIVE Unbuilt(_, _)
Unbuilt(doc, n) ==
    IF n = 0 THEN 0
    ELSE (IF ghost[n].doc = doc THEN ghost[n].inserts - ghost[n].builds ELSE 0)
         + Unbuilt(doc, n - 1)

\* C36: the build command is executed once per inserted candidate and never
\* otherwise: at any time every insertion but at most the last has had its
\* build, for every session and for every document, so that no build is
\* requested without an insertion and no second insertion is made into a
\* document before the build of the first.
C36_OneBuildPerInsert ==
    /\ \A sid \in Sids : ghost[sid].inserts - ghost[sid].builds \in {0, 1}
    /\ \A doc \in DOMAIN buffer : Unbuilt(doc, Len(ghost)) \in {0, 1}

\* C37: every entry of the history records the line on which its statement
\* stands in the document, also after later insertions above it, and the lines
\* of the entries are distinct and greater than the line of the target.
C37_HistoryLinesTrack ==
    \A sid \in Sids :
        (ghost[sid].outcome = "Live" /\ TasksOf(sid) = {}) =>
            LET history == heap[sid].verifiedAssertions
            IN  /\ \A i \in 1..Len(history) :
                       /\ StatementAt(buffer[ghost[sid].doc], history[i])
                       /\ history[i].line > heap[sid].targetAssertion.line
                /\ \A i, j \in 1..Len(history) : i # j => history[i].line # history[j].line


\* C38: every run of the command on an assert statement registers a new state
\* object for the document, whatever happened on the document before: its
\* target is the obligation extracted at the cursor, it has no attempt and an
\* empty history, its depth counts nothing but the first call of tryAssertStep
\* made for it by the command itself, and the state objects of earlier
\* sessions are left as they were.
C38_StartsFresh ==
    [][ (last'.kind = "handle" /\ last'.sid # NoState) =>
            LET sid == last'.sid
                doc == ghost'[sid].doc
            IN  /\ sid = Len(heap) + 1
                /\ Len(heap') = sid
                /\ assertDivideStates'[doc] = sid
                /\ heap'[sid].targetAssertion
                       = extractAssertInfo(buffer[doc], ghost'[sid].origin)[1]
                /\ heap'[sid].depth = ghost'[sid].advances
                /\ ghost'[sid].advances = 1
                /\ heap'[sid].attempt = Absent
                /\ heap'[sid].verifiedAssertions = <<>>
                /\ \A old \in 1..Len(heap) : heap'[old] = heap[old]
      ]_vars

\* the command has just been run again on a document whose earlier session had
\* issued an attempt and was still registered
C38_StartedOverUsed ==
    /\ last.kind = "handle"
    /\ last.sid = 2
    /\ ghost[1].outcome = "Replaced"
    /\ heap[1].attempt # Absent
    /\ heap[2].attempt = Absent


\* C39: while a session is registered, its document has as many lines as it
\* had when the session was created plus the candidates inserted for the
\* session so far, and no more candidates were inserted than its depth counts.
C39_LinesCountInserts ==
    \A sid \in Sids :
        getAssertDivideStates(assertDivideStates, ghost[sid].doc) = sid =>
            /\ Len(buffer[ghost[sid].doc]) = ghost[sid].lines + ghost[sid].inserts
            /\ ghost[sid].inserts <= heap[sid].depth

====
